---------------------------- MODULE Spec2Model ----------------------------
(***************************************************************************)
(* A model of binary-object.py: the bit cursor (BinaryWriter/BinaryReader), *)
(* the chunked integer codec, the variable-width type-tag codec, the string *)
(* table, and the JSON / XML / CSV encoders and decoders built on them.     *)
(*                                                                          *)
(* Python objects are records; a method  m(self, args)  that mutates self   *)
(* is an operator returning the new self, and a reading method returns      *)
(* [self |-> reader after the call, value |-> what it returned].  A raised  *)
(* exception is recorded in the reader's field err and ends every later     *)
(* read.  Byte positions are 0-based as in Python; TLA+ sequences are       *)
(* 1-based, so data[p] of the source is data[p + 1] here.                   *)
(***************************************************************************)
EXTENDS Integers, Sequences, FiniteSets, TLC

VARIABLES writer, reader, input, output, pc

vars == <<writer, reader, input, output, pc>>

-----------------------------------------------------------------------------
(* Bounds of the model *)

\* longest sequence of bit-cursor operations replayed in Spec
MaxOps == 3

-----------------------------------------------------------------------------
(* Python integer operators on non-negative integers *)

RECURSIVE BitOr(_, _)
\* a | b
BitOr(a, b) ==
    IF a = 0 THEN b
    ELSE IF b = 0 THEN a
    ELSE (IF (a % 2 = 1) \/ (b % 2 = 1) THEN 1 ELSE 0) + 2 * BitOr(a \div 2, b \div 2)

RECURSIVE BitAnd(_, _)
\* a & b
BitAnd(a, b) ==
    IF a = 0 \/ b = 0 THEN 0
    ELSE (IF (a % 2 = 1) /\ (b % 2 = 1) THEN 1 ELSE 0) + 2 * BitAnd(a \div 2, b \div 2)

\* a << k
Shl(a, k) == a * 2^k

\* a >> k
Shr(a, k) == a \div 2^k

\* the exception a reader call ended with; NoError while none was raised
NoError == "none"

-----------------------------------------------------------------------------
(* class BinaryFormat *)

TYPE_BIT_LENGTH == 3
TYPE_BIT_STEP == 0
TYPE_EMPTY == 0
TYPE_BOOL == 1
TYPE_INTEGER == 2
TYPE_REAL == 3
TYPE_BYTES == 4
TYPE_UTF8 == 5
TYPE_LIST == 6
TYPE_UNIFORM_LIST == 7
TYPE_MAP == 8
TYPE_PROPERTIES == 9
TYPE_COMMENT == 10

-----------------------------------------------------------------------------
(* class BinaryWriter *)

\* bit_write_position = None
NoPosition == -1

\* BinaryWriter.__init__ ; string_map is a function from strings to indices
BinaryWriter ==
    [data |-> <<>>, bits |-> 0, bit_shift |-> 0,
     bit_write_position |-> NoPosition, string_map |-> <<>>]

\* self.data.append(value)
write_byte(self, value) == [self EXCEPT !.data = Append(@, value)]

\* self.data += data
write_bytes(self, data) == [self EXCEPT !.data = @ \o data]

RECURSIVE write_bits_bytes(_, _, _)
\* the loop  for i in range(num_bits//8)  of write_bits: n bytes left to append
write_bits_bytes(self, n, value) ==
    IF n = 0 THEN [self |-> self, value |-> value]
    ELSE write_bits_bytes(write_byte(self, BitAnd(value, 255)), n - 1, Shr(value, 8))

\* write_bits_partial with  self.bits = 0  in place of  self.bits >>= 8 : the
\* bits carried over into the next byte are lost
write_bits_partial_lost_carry(self, num_bits, value) ==
    LET bits == BitOr(self.bits, Shl(value, self.bit_shift)) IN
    IF self.bit_shift = 0 THEN
        [self EXCEPT !.bits = bits,
                     !.bit_write_position = Len(self.data),
                     !.data = Append(@, 0),
                     !.bit_shift = num_bits]
    ELSE IF self.bit_shift + num_bits > 7 THEN
        LET committed == [self.data EXCEPT ![self.bit_write_position + 1] = BitAnd(bits, 255)]
            shift == self.bit_shift + num_bits - 8
        IN IF shift > 0 THEN
               [self EXCEPT !.bits = 0,
                            !.bit_shift = shift,
                            !.bit_write_position = Len(committed),
                            !.data = Append(committed, 0)]
           ELSE
               [self EXCEPT !.bits = 0,
                            !.bit_shift = shift,
                            !.data = committed]
    ELSE
        [self EXCEPT !.bits = bits, !.bit_shift = @ + num_bits]

\* the sub-byte part of write_bits: num_bits is 1..7 here
write_bits_partial(self, num_bits, value) ==
    LET bits == BitOr(self.bits, Shl(value, self.bit_shift)) IN
    IF self.bit_shift = 0 THEN
        [self EXCEPT !.bits = bits,
                     !.bit_write_position = Len(self.data),
                     !.data = Append(@, 0),
                     !.bit_shift = num_bits]
    ELSE IF self.bit_shift + num_bits > 7 THEN
        LET committed == [self.data EXCEPT ![self.bit_write_position + 1] = BitAnd(bits, 255)]
            shift == self.bit_shift + num_bits - 8
        IN IF shift > 0 THEN
               [self EXCEPT !.bits = Shr(bits, 8),
                            !.bit_shift = shift,
                            !.bit_write_position = Len(committed),
                            !.data = Append(committed, 0)]
           ELSE
               [self EXCEPT !.bits = Shr(bits, 8),
                            !.bit_shift = shift,
                            !.data = committed]
    ELSE
        [self EXCEPT !.bits = bits, !.bit_shift = @ + num_bits]

write_bits(self, num_bits, value) ==
    LET whole == write_bits_bytes(self, num_bits \div 8, value)
        rest == BitAnd(num_bits, 7)
    IN IF rest > 0 THEN write_bits_partial(whole.self, rest, whole.value)
       ELSE whole.self

write_bit(self, value) == write_bits(self, 1, value)

RECURSIVE write_integer(_, _)
\* the loop  while True  of write_integer; each turn writes one chunk
write_integer(self, value) ==
    IF value < 256 THEN
        write_byte(write_bits(self, 2, 0), value)
    ELSE IF value < 256 * 256 THEN
        write_byte(write_byte(write_bits(self, 2, 1), BitAnd(value, 255)), Shr(value, 8))
    ELSE IF value < 256 * 256 * 256 THEN
        write_byte(write_byte(write_byte(write_bits(self, 2, 2),
            BitAnd(value, 255)), BitAnd(Shr(value, 8), 255)), Shr(value, 16))
    ELSE
        write_integer(
            write_byte(write_byte(write_byte(write_bits(self, 2, 3),
                BitAnd(value, 255)), BitAnd(Shr(value, 8), 255)), BitAnd(Shr(value, 16), 255)),
            Shr(value, 24))

\* one code point of a str as its UTF-8 bytes
utf8_encode_char(c) ==
    IF c < 128 THEN <<c>>
    ELSE IF c < 2048 THEN <<192 + (c \div 64), 128 + (c % 64)>>
    ELSE <<224 + (c \div 4096), 128 + ((c \div 64) % 64), 128 + (c % 64)>>

RECURSIVE utf8_encode(_)
\* string.encode('utf-8'); a str is the sequence of its code points (below 65536)
utf8_encode(string) ==
    IF string = <<>> THEN <<>>
    ELSE utf8_encode_char(Head(string)) \o utf8_encode(Tail(string))

\* string in self.string_map
InStringMap(self, string) == string \in DOMAIN self.string_map

\* write_string, the branch of a string seen before: a back-reference
write_string_indexed(self, string) ==
    write_integer(write_bit(self, 1), self.string_map[string])

\* write_string_literal without  self.string_map[string] = len(self.string_map)
write_string_literal_unregistered(self, string) ==
    LET string_bytes == utf8_encode(string)
    IN write_bytes(write_integer(write_bit(self, 0), Len(string_bytes)), string_bytes)

\* write_string, the branch of a new string: the literal, registered at the next index
write_string_literal(self, string) ==
    LET flagged == write_bit(self, 0)
        registered == [flagged EXCEPT !.string_map =
                          [s \in DOMAIN @ \cup {string} |->
                              IF s \in DOMAIN @ THEN @[s] ELSE Cardinality(DOMAIN @)]]
        string_bytes == utf8_encode(string)
    IN write_bytes(write_integer(registered, Len(string_bytes)), string_bytes)

write_string(self, string) ==
    IF InStringMap(self, string) THEN write_string_indexed(self, string)
    ELSE write_string_literal(self, string)

RECURSIVE write_variable_bits_strict(_, _, _, _)
\* write_variable_bits with the loop test  value > max_value : a value equal
\* to the sentinel is written as a last chunk
write_variable_bits_strict(self, bit_length, bit_step, value) ==
    LET max_value == 2^bit_length - 1 IN
    IF value > max_value THEN
        write_variable_bits_strict(write_bits(self, bit_length, max_value),
                            IF bit_step # 0 THEN bit_length + bit_step ELSE bit_length,
                            bit_step, value - max_value)
    ELSE write_bits(self, bit_length, value)

RECURSIVE write_variable_bits(_, _, _, _)
\* the loop  while value >= max_value  of write_variable_bits, then the last chunk
write_variable_bits(self, bit_length, bit_step, value) ==
    LET max_value == 2^bit_length - 1 IN
    IF value >= max_value THEN
        write_variable_bits(write_bits(self, bit_length, max_value),
                            IF bit_step # 0 THEN bit_length + bit_step ELSE bit_length,
                            bit_step, value - max_value)
    ELSE write_bits(self, bit_length, value)

write_type(self, value) == write_variable_bits(self, TYPE_BIT_LENGTH, TYPE_BIT_STEP, value)

\* finalize without the statement  self.bits = 0
finalize_bits_kept(self) ==
    IF self.bit_shift > 0 THEN
        [self EXCEPT !.data[self.bit_write_position + 1] = BitAnd(self.bits, 255),
                     !.bit_shift = 0]
    ELSE self

finalize(self) ==
    IF self.bit_shift > 0 THEN
        [self EXCEPT !.data[self.bit_write_position + 1] = BitAnd(self.bits, 255),
                     !.bits = 0,
                     !.bit_shift = 0]
    ELSE self

-----------------------------------------------------------------------------
(* class BinaryReader *)
(*                                                                          *)
(* A statement sequence  x = self.f(); ... x ...  is written  g(f(self)) :  *)
(* the rest of the method is an operator g taking the result of the call.   *)

\* BinaryReader.__init__ followed by  self.data = binary_data  (decode)
BinaryReader(binary_data) ==
    [data |-> binary_data, position |-> 0, bits |-> 0, bit_shift |-> 0,
     string_list |-> <<>>, err |-> NoError]

\* a call that raises: the exception is kept, the value is never used
Raise(self, exception) == [self |-> [self EXCEPT !.err = exception], value |-> 0]

\* whether the call that returned got raised an exception
Raised(got) == got.self.err # NoError

\* self.data[self.position] raises IndexError past the end of the buffer
read_byte(self) ==
    IF self.err # NoError THEN [self |-> self, value |-> 0]
    ELSE IF self.position >= Len(self.data) THEN Raise(self, "IndexError")
    ELSE [self |-> [self EXCEPT !.position = @ + 1],
          value |-> self.data[self.position + 1]]

\* self.data[self.position:self.position + length]: a slice never raises, it
\* stops at the end of the buffer; the position moves by length all the same
read_bytes(self, length) ==
    IF self.err # NoError THEN [self |-> self, value |-> <<>>]
    ELSE [self |-> [self EXCEPT !.position = @ + length],
          value |-> SubSeq(self.data, self.position + 1,
                           IF self.position + length > Len(self.data)
                           THEN Len(self.data) ELSE self.position + length)]

RECURSIVE read_bits_bytes(_, _, _, _)
\* value = value + (self.data[self.position] << (i*8)), the byte being b
read_bits_bytes_add(b, num_bytes, i, value) ==
    read_bits_bytes(b.self, num_bytes, i + 1, value + Shl(b.value, i * 8))

\* the loop  for i in range(num_bytes)  of read_bits, at iteration i
read_bits_bytes(self, num_bytes, i, value) ==
    IF self.err # NoError \/ i >= num_bytes THEN [self |-> self, value |-> value]
    ELSE read_bits_bytes_add(read_byte(self), num_bytes, i, value)

\* self.bits = self.read_byte()
read_bits_load(b) == [b.self EXCEPT !.bits = b.value]

\* self.bits += self.read_byte() << 8
read_bits_extend(b) == [b.self EXCEPT !.bits = @ + Shl(b.value, 8)]

\* the lookahead byte is read when no bit of it is left, and the next byte
\* joins it when the bits asked for reach past it
read_bits_refill(self, num_bits) ==
    IF self.bit_shift = 0 THEN read_bits_load(read_byte(self))
    ELSE IF self.bit_shift + num_bits > 8 THEN read_bits_extend(read_byte(self))
    ELSE self

\* self.bit_shift += num_bits, and a lookahead byte used up is dropped
read_bits_advance(self, shift) ==
    IF shift >= 8 THEN [self EXCEPT !.bits = Shr(@, 8), !.bit_shift = shift - 8]
    ELSE [self EXCEPT !.bit_shift = shift]

\* bit_value = (self.bits >> self.bit_shift) & mask, then the advance
read_bits_take(self, num_bits) ==
    IF self.err # NoError THEN [self |-> self, value |-> 0]
    ELSE [self |-> read_bits_advance(self, self.bit_shift + num_bits),
          value |-> BitAnd(Shr(self.bits, self.bit_shift), 2^num_bits - 1)]

\* the sub-byte part of read_bits: num_bits is 1..7 here
read_bits_partial(self, num_bits) ==
    read_bits_take(read_bits_refill(self, num_bits), num_bits)

\* return value + (bit_value << (num_bytes*8))
read_bits_join(value, part, num_bytes) ==
    [self |-> part.self, value |-> value + Shl(part.value, num_bytes * 8)]

\* read_bits after its whole-byte loop, which returned whole
read_bits_rest(whole, num_bits) ==
    IF Raised(whole) THEN [self |-> whole.self, value |-> 0]
    ELSE IF BitAnd(num_bits, 7) > 0 THEN
        read_bits_join(whole.value,
                       read_bits_partial(whole.self, BitAnd(num_bits, 7)),
                       num_bits \div 8)
    ELSE whole

read_bits(self, num_bits) ==
    read_bits_rest(read_bits_bytes(self, num_bits \div 8, 0, 0), num_bits)

read_bit(self) == read_bits(self, 1)

RECURSIVE read_integer_bytes(_, _, _, _)
\* value += self.read_byte() << shift, the byte being b, then the next byte
read_integer_bytes_add(b, count, shift, value) ==
    read_integer_bytes(b.self, count - 1, shift + 8, value + Shl(b.value, shift))

\* the payload of one chunk: count bytes read left to right, added to value
\* at shift, shift + 8, shift + 16
read_integer_bytes(self, count, shift, value) ==
    IF self.err # NoError \/ count = 0 THEN [self |-> self, value |-> value]
    ELSE read_integer_bytes_add(read_byte(self), count, shift, value)

RECURSIVE read_integer_loop(_, _, _)
\* the next turn of the loop after a selector-3 chunk
read_integer_continue(chunk, shift) == read_integer_loop(chunk.self, chunk.value, shift)

\* read_integer_chunk with the running shift grown by 16 per continuation
\* chunk in place of 24
read_integer_chunk_short_shift(length, value, shift) ==
    IF Raised(length) THEN [self |-> length.self, value |-> 0]
    ELSE IF length.value = 0 THEN read_integer_bytes(length.self, 1, shift, value)
    ELSE IF length.value = 1 THEN read_integer_bytes(length.self, 2, shift, value)
    ELSE IF length.value = 2 THEN read_integer_bytes(length.self, 3, shift, value)
    ELSE read_integer_continue(read_integer_bytes(length.self, 3, shift, value), shift + 16)

\* one turn of the loop of read_integer, after  length = self.read_bits(2)
read_integer_chunk(length, value, shift) ==
    IF Raised(length) THEN [self |-> length.self, value |-> 0]
    ELSE IF length.value = 0 THEN read_integer_bytes(length.self, 1, shift, value)
    ELSE IF length.value = 1 THEN read_integer_bytes(length.self, 2, shift, value)
    ELSE IF length.value = 2 THEN read_integer_bytes(length.self, 3, shift, value)
    ELSE read_integer_continue(read_integer_bytes(length.self, 3, shift, value), shift + 24)

\* the loop  while True  of read_integer, entered with value and shift
read_integer_loop(self, value, shift) ==
    read_integer_chunk(read_bits(self, 2), value, shift)

read_integer(self) == read_integer_loop(self, 0, 0)

\* the number of bytes the UTF-8 sequence starting with byte b must have; 0
\* for a byte that starts no sequence (code points below 65536 only)
utf8_length(b) ==
    IF b < 128 THEN 1
    ELSE IF b >= 194 /\ b < 224 THEN 2
    ELSE IF b >= 224 /\ b < 240 THEN 3
    ELSE 0

IsContinuation(b) == b >= 128 /\ b < 192

\* the code point of a sequence of 1, 2 or 3 bytes
utf8_decode_char(bytes) ==
    IF Len(bytes) = 1 THEN bytes[1]
    ELSE IF Len(bytes) = 2 THEN (bytes[1] - 192) * 64 + (bytes[2] - 128)
    ELSE (bytes[1] - 224) * 4096 + (bytes[2] - 128) * 64 + (bytes[3] - 128)

\* whether bytes, of utf8_length(bytes[1]) bytes, encode one code point:
\* continuation bytes, no overlong form, no surrogate
utf8_valid_char(bytes) ==
    /\ \A i \in 2..Len(bytes) : IsContinuation(bytes[i])
    /\ Len(bytes) = 3 =>
          /\ utf8_decode_char(bytes) >= 2048
          /\ ~(utf8_decode_char(bytes) >= 55296 /\ utf8_decode_char(bytes) < 57344)

\* a decoded code point in front of the decoded rest
utf8_decode_cons(char, rest) == [ok |-> rest.ok, string |-> <<char>> \o rest.string]

RECURSIVE utf8_decode(_)
\* the first sequence, of n bytes, and then the rest
utf8_decode_next(bytes, n) ==
    IF n = 0 \/ n > Len(bytes) \/ ~utf8_valid_char(SubSeq(bytes, 1, n))
    THEN [ok |-> FALSE, string |-> <<>>]
    ELSE utf8_decode_cons(utf8_decode_char(SubSeq(bytes, 1, n)),
                          utf8_decode(SubSeq(bytes, n + 1, Len(bytes))))

\* bytes.decode('utf-8'): [ok |-> FALSE] stands for UnicodeDecodeError
utf8_decode(bytes) ==
    IF bytes = <<>> THEN [ok |-> TRUE, string |-> <<>>]
    ELSE utf8_decode_next(bytes, utf8_length(Head(bytes)))

\* read_string, the branch of a back-reference, after  index = self.read_integer() :
\* self.string_list[index] raises IndexError for an index not yet appended
read_string_indexed(index) ==
    IF Raised(index) THEN [self |-> index.self, value |-> <<>>]
    ELSE IF index.value >= Len(index.self.string_list)
         THEN [self |-> [index.self EXCEPT !.err = "IndexError"], value |-> <<>>]
    ELSE [self |-> index.self, value |-> index.self.string_list[index.value + 1]]

\* self.string_list.append(string); return string
read_string_append(self, string) ==
    IF self.err # NoError THEN [self |-> self, value |-> <<>>]
    ELSE IF ~string.ok
         THEN [self |-> [self EXCEPT !.err = "UnicodeDecodeError"], value |-> <<>>]
    ELSE [self |-> [self EXCEPT !.string_list = Append(@, string.string)],
          value |-> string.string]

\* string = <the bytes read>.decode('utf-8')
read_string_decode(bytes) == read_string_append(bytes.self, utf8_decode(bytes.value))

\* read_string, the branch of a literal, after  length = self.read_integer()
read_string_literal(length) ==
    read_string_decode(read_bytes(length.self, length.value))

\* read_string after  is_indexed = self.read_bit()
read_string_flagged(is_indexed) ==
    IF Raised(is_indexed) THEN [self |-> is_indexed.self, value |-> <<>>]
    ELSE IF is_indexed.value # 0 THEN read_string_indexed(read_integer(is_indexed.self))
    ELSE read_string_literal(read_integer(is_indexed.self))

read_string(self) == read_string_flagged(read_bit(self))

RECURSIVE read_variable_bits_loop(_, _, _, _)
\* read_variable_bits after  next = self.read_bits(bit_length) : the loop
\* while next == max_value , then  value += next
read_variable_bits_next(next, bit_length, bit_step, value) ==
    IF Raised(next) THEN [self |-> next.self, value |-> 0]
    ELSE IF next.value = 2^bit_length - 1 THEN
        read_variable_bits_loop(next.self,
            IF bit_step # 0 THEN bit_length + bit_step ELSE bit_length,
            bit_step, value + next.value)
    ELSE [self |-> next.self, value |-> value + next.value]

\* read_variable_bits from a read_bits on, entered with value
read_variable_bits_loop(self, bit_length, bit_step, value) ==
    read_variable_bits_next(read_bits(self, bit_length), bit_length, bit_step, value)

read_variable_bits(self, bit_length, bit_step) ==
    read_variable_bits_loop(self, bit_length, bit_step, 0)

read_type(self) == read_variable_bits(self, TYPE_BIT_LENGTH, TYPE_BIT_STEP)

\* struct.unpack('<d', self.data[self.position:self.position+8]): the slice
\* is shorter than 8 bytes at the end of the buffer and unpack then raises
\* struct.error; a float is kept as the 8 bytes of its IEEE-754 layout
read_ieee754_2_64(self) ==
    IF self.err # NoError THEN [self |-> self, value |-> <<>>]
    ELSE IF self.position + 8 > Len(self.data) THEN Raise(self, "struct.error")
    ELSE [self |-> [self EXCEPT !.position = @ + 8],
          value |-> SubSeq(self.data, self.position + 1, self.position + 8)]

-----------------------------------------------------------------------------
(* Python values: [t |-> the type's name, v |-> the value].  A str is the   *)
(* sequence of its code points, bytes the sequence of its bytes, a float    *)
(* the 8 bytes struct.pack('<d') gives, a list the sequence of its items    *)
(* and a dict the sequence of its <<key, value>> pairs in insertion order.  *)

PyNone == [t |-> "NoneType", v |-> 0]
PyBool(b) == [t |-> "bool", v |-> b]
PyInt(n) == [t |-> "int", v |-> n]
PyFloat(packed) == [t |-> "float", v |-> packed]
PyBytes(bytes) == [t |-> "bytes", v |-> bytes]
PyStr(string) == [t |-> "str", v |-> string]
PyList(items) == [t |-> "list", v |-> items]
PyDict(pairs) == [t |-> "dict", v |-> pairs]

\* abs(value)
Abs(n) == IF n < 0 THEN 0 - n ELSE n

\* bool(value), as  if key:  evaluates it
Truthy(value) ==
    IF value.t = "NoneType" THEN FALSE
    ELSE IF value.t = "bool" THEN value.v
    ELSE IF value.t = "int" THEN value.v # 0
    ELSE IF value.t = "float" THEN
        ~((\A i \in 1..7 : value.v[i] = 0) /\ value.v[8] \in {0, 128})
    ELSE value.v # <<>>

\* whether a value can be a dict key; hash(list) and hash(dict) raise TypeError
Hashable(value) == value.t \notin {"list", "dict"}

\* the number a bool or an int is as a dict key (True == 1, False == 0)
KeyNumber(value) == IF value.t = "bool" THEN (IF value.v THEN 1 ELSE 0) ELSE value.v

\* whether two hashable values are the same dict key (floats compared as bytes)
SameKey(a, b) ==
    IF a.t \in {"bool", "int"} /\ b.t \in {"bool", "int"} THEN KeyNumber(a) = KeyNumber(b)
    ELSE a.t = b.t /\ a.v = b.v

\* key in item_map
InDict(pairs, key) == \E i \in 1..Len(pairs) : SameKey(pairs[i][1], key)

\* the place of key in item_map
DictIndex(pairs, key) == CHOOSE i \in 1..Len(pairs) : SameKey(pairs[i][1], key)

-----------------------------------------------------------------------------
(* class JSONEncoder *)

\* statements run in order: the writer a statement leaves is computed before
\* the next statement starts (always true; it fixes the order of evaluation)
Evaluated(self) == self.data = self.data

RECURSIVE JSONEncoder_encode_field(_, _)
RECURSIVE JSONEncoder_encode_children(_, _)
\* for child in value: self.encode_field(child)
JSONEncoder_encode_children(self, items) ==
    IF Evaluated(self) /\ items # <<>>
    THEN JSONEncoder_encode_children(JSONEncoder_encode_field(self, Head(items)), Tail(items))
    ELSE self

RECURSIVE JSONEncoder_encode_items(_, _)
\* for child_key in value: encode_field(child_key); encode_field(value[child_key])
JSONEncoder_encode_items(self, pairs) ==
    IF Evaluated(self) /\ pairs # <<>>
    THEN JSONEncoder_encode_items(
             JSONEncoder_encode_field(JSONEncoder_encode_field(self, Head(pairs)[1]),
                                      Head(pairs)[2]),
             Tail(pairs))
    ELSE self

JSONEncoder_encode_field(self, value) ==
    IF value.t = "NoneType" THEN
        write_type(self, TYPE_EMPTY)
    ELSE IF value.t = "bool" THEN
        write_bit(write_type(self, TYPE_BOOL), IF value.v = FALSE THEN 0 ELSE 1)
    ELSE IF value.t = "int" THEN
        write_integer(write_bit(write_type(self, TYPE_INTEGER),
                                IF value.v >= 0 THEN 0 ELSE 1),
                      Abs(value.v))
    ELSE IF value.t = "float" THEN
        write_bytes(write_type(self, TYPE_REAL), value.v)
    ELSE IF value.t = "bytes" THEN
        write_bytes(write_integer(write_type(self, TYPE_BYTES), Len(value.v)), value.v)
    ELSE IF value.t = "str" THEN
        write_string(write_type(self, TYPE_UTF8), value.v)
    ELSE IF value.t = "list" THEN
        JSONEncoder_encode_children(
            write_integer(write_type(self, TYPE_LIST), Len(value.v)), value.v)
    ELSE
        JSONEncoder_encode_items(
            write_integer(write_type(self, TYPE_MAP), Len(value.v)), value.v)

\* JSONEncoder.encode after json.load: the bytes of pyobj
JSONEncoder_encode(pyobj) == finalize(JSONEncoder_encode_field(BinaryWriter, pyobj))

-----------------------------------------------------------------------------
(* class JSONDecoder *)

\* field_type=None
NoType == -1

\* a value returned with the reader as it is
Return(self, value) == [self |-> self, value |-> value]

\* a value computed from what a reader call returned, unless the call raised
ReturnBool(bit) == Return(bit.self, PyBool(bit.value = 1))
ReturnBytes(bytes) == Return(bytes.self, PyBytes(bytes.value))
ReturnFloat(packed) == Return(packed.self, PyFloat(packed.value))
ReturnStr(string) == Return(string.self, PyStr(string.value))
ReturnNone(string) == Return(string.self, PyNone)

\* return -value if is_negative else value
ReturnInt(is_negative, value) ==
    Return(value.self, PyInt(IF is_negative = 1 THEN 0 - value.value ELSE value.value))

\* is_negative = self.read_bit() == 1; value = self.read_integer()
decode_integer(is_negative) == ReturnInt(is_negative.value, read_integer(is_negative.self))

\* length = self.read_integer(); return self.read_bytes(length)
decode_bytes(length) == ReturnBytes(read_bytes(length.self, length.value))

\* item_map after the statements of lines 360-365 for key and value
item_map_put(item_map, key, value) ==
    IF InDict(item_map, key) THEN
        [item_map EXCEPT ![DictIndex(item_map, key)][2] =
            IF @.t # "list" THEN PyList(<<@, value>>) ELSE PyList(Append(@.v, value))]
    ELSE Append(item_map, <<key, value>>)

RECURSIVE JSONDecoder_decode_field(_, _)
RECURSIVE JSONDecoder_skip_properties(_, _)
\* the body of the properties loop were the value of an item left unread
JSONDecoder_skip_property_key_only(key, i) ==
    JSONDecoder_skip_properties(key.self, i - 1)

\* the body  key = self.decode_field(); value = self.decode_field()  of the
\* properties loop, after the key was read
JSONDecoder_skip_property(key, i) ==
    JSONDecoder_skip_properties(JSONDecoder_decode_field(key.self, NoType).self, i - 1)

\* for i in range(num_items)  of the properties loop, i items left
JSONDecoder_skip_properties(self, i) ==
    IF self.err # NoError \/ i <= 0 THEN self
    ELSE JSONDecoder_skip_property(JSONDecoder_decode_field(self, NoType), i)

RECURSIVE JSONDecoder_decode_list(_, _, _, _)
\* values.append(self.decode_field(field_type)), the call having returned item
JSONDecoder_list_append(item, field_type, i, values) ==
    JSONDecoder_decode_list(item.self, field_type, i - 1, Append(values, item.value))

\* the loops of the List and UniformList branches, i values left
JSONDecoder_decode_list(self, field_type, i, values) ==
    IF self.err # NoError \/ i <= 0 THEN Return(self, PyList(values))
    ELSE JSONDecoder_list_append(JSONDecoder_decode_field(self, field_type),
                                 field_type, i, values)

\* the UniformList branch after  field_type = self.read_type()
JSONDecoder_decode_uniform_counted(field_type, num_values) ==
    JSONDecoder_decode_list(num_values.self, field_type, num_values.value, <<>>)

JSONDecoder_decode_uniform(field_type) ==
    JSONDecoder_decode_uniform_counted(field_type.value, read_integer(field_type.self))

\* the List branch after  num_values = self.read_integer()
JSONDecoder_decode_tagged(num_values) ==
    JSONDecoder_decode_list(num_values.self, NoType, num_values.value, <<>>)

RECURSIVE JSONDecoder_decode_map(_, _, _)
\* the Map loop after  value = self.decode_field()
JSONDecoder_map_put(key, value, i, item_map) ==
    IF Raised(value) THEN Return(value.self, PyDict(item_map))
    ELSE IF ~Hashable(key) THEN Return([value.self EXCEPT !.err = "TypeError"], PyDict(item_map))
    ELSE JSONDecoder_decode_map(value.self, i - 1, item_map_put(item_map, key, value.value))

\* the Map loop were the test  if key:  absent: a value is read for every key
JSONDecoder_map_item_unguarded(key, i, item_map) ==
    IF Raised(key) THEN Return(key.self, PyDict(item_map))
    ELSE JSONDecoder_map_put(key.value, JSONDecoder_decode_field(key.self, NoType), i, item_map)

\* the Map loop after  key = self.decode_field() : the value is read for a
\* key that is true only
JSONDecoder_map_item(key, i, item_map) ==
    IF Raised(key) THEN Return(key.self, PyDict(item_map))
    ELSE IF Truthy(key.value) THEN
        JSONDecoder_map_put(key.value, JSONDecoder_decode_field(key.self, NoType), i, item_map)
    ELSE JSONDecoder_decode_map(key.self, i - 1, item_map)

\* for i in range(num_items)  of the Map branch, i items left
JSONDecoder_decode_map(self, i, item_map) ==
    IF self.err # NoError \/ i <= 0 THEN Return(self, PyDict(item_map))
    ELSE JSONDecoder_map_item(JSONDecoder_decode_field(self, NoType), i, item_map)

\* the Map branch after  num_items = self.read_integer()
JSONDecoder_decode_items(num_items) ==
    JSONDecoder_decode_map(num_items.self, num_items.value, <<>>)

\* the chain  if field_type == ... elif ...  of decode_field
JSONDecoder_decode_value(self, field_type) ==
    IF self.err # NoError THEN Return(self, PyNone)
    ELSE IF field_type = TYPE_EMPTY THEN Return(self, PyNone)
    ELSE IF field_type = TYPE_BOOL THEN ReturnBool(read_bit(self))
    ELSE IF field_type = TYPE_INTEGER THEN decode_integer(read_bit(self))
    ELSE IF field_type = TYPE_REAL THEN ReturnFloat(read_ieee754_2_64(self))
    ELSE IF field_type = TYPE_BYTES THEN decode_bytes(read_integer(self))
    ELSE IF field_type = TYPE_UTF8 THEN ReturnStr(read_string(self))
    ELSE IF field_type = TYPE_COMMENT THEN ReturnNone(read_string(self))
    ELSE IF field_type = TYPE_LIST THEN JSONDecoder_decode_tagged(read_integer(self))
    ELSE IF field_type = TYPE_UNIFORM_LIST THEN JSONDecoder_decode_uniform(read_type(self))
    ELSE IF field_type = TYPE_MAP THEN JSONDecoder_decode_items(read_integer(self))
    ELSE Return([self EXCEPT !.err = "ValueError"], PyNone)

RECURSIVE JSONDecoder_decode_properties(_)
\* the properties loop after  num_items = self.read_integer() : the items
\* are decoded and dropped, then  field_type = self.read_type()
JSONDecoder_properties_block(num_items) ==
    JSONDecoder_decode_properties(
        read_type(JSONDecoder_skip_properties(num_items.self, num_items.value)))

\* while field_type == TYPE_PROPERTIES , then the value of the last type read
JSONDecoder_decode_properties(field_type) ==
    IF Raised(field_type) THEN Return(field_type.self, PyNone)
    ELSE IF field_type.value = TYPE_PROPERTIES
         THEN JSONDecoder_properties_block(read_integer(field_type.self))
    ELSE JSONDecoder_decode_value(field_type.self, field_type.value)

\* if not field_type: field_type = self.read_type()  -- None and 0 are both false
JSONDecoder_decode_field(self, field_type) ==
    IF field_type = NoType \/ field_type = 0
    THEN JSONDecoder_decode_properties(read_type(self))
    ELSE JSONDecoder_decode_properties(Return(self, field_type))

JSONDecoder_decode(binary_data) == JSONDecoder_decode_field(BinaryReader(binary_data), NoType)

-----------------------------------------------------------------------------
(* xml.etree.ElementTree: an Element is [tag, attrib, text, children], the  *)
(* attrib a dict (pairs in insertion order), the text None or a str.        *)

\* ET.Comment, the tag of a comment node
ET_Comment == [t |-> "function", v |-> <<>>]

\* ET.Element(tag)
Element(tag) == [tag |-> tag, attrib |-> <<>>, text |-> PyNone, children |-> <<>>]

\* node.attrib[key] = value
dict_set(pairs, key, value) ==
    IF InDict(pairs, key) THEN [pairs EXCEPT ![DictIndex(pairs, key)][2] = value]
    ELSE Append(pairs, <<key, value>>)

\* the characters str.strip() removes
IsSpace(c) ==
    \/ c \in 9..13 \/ c \in 28..32 \/ c \in {133, 160, 5760}
    \/ c \in 8192..8202 \/ c \in {8232, 8233, 8239, 8287, 12288}

RECURSIVE lstrip(_)
lstrip(string) ==
    IF string # <<>> /\ IsSpace(Head(string)) THEN lstrip(Tail(string)) ELSE string

RECURSIVE rstrip(_)
rstrip(string) ==
    IF string # <<>> /\ IsSpace(string[Len(string)])
    THEN rstrip(SubSeq(string, 1, Len(string) - 1)) ELSE string

\* text.strip()
strip(string) == rstrip(lstrip(string))

-----------------------------------------------------------------------------
(* class XMLEncoder *)

RECURSIVE XMLEncoder_encode_pairs(_, _)
\* for attribute_key in node.attrib: the key and the value, each as Utf8
XMLEncoder_encode_pairs(self, pairs) ==
    IF Evaluated(self) /\ pairs # <<>>
    THEN XMLEncoder_encode_pairs(
             write_string(write_type(write_string(write_type(self, TYPE_UTF8),
                                                  Head(pairs)[1].v),
                                     TYPE_UTF8),
                          Head(pairs)[2].v),
             Tail(pairs))
    ELSE self

\* if node.attrib: the Properties tag, the count and the pairs
XMLEncoder_encode_attributes(self, attrib) ==
    IF attrib # <<>>
    THEN XMLEncoder_encode_pairs(
             write_integer(write_type(self, TYPE_PROPERTIES), Len(attrib)), attrib)
    ELSE self

\* text = node.text.strip(), written as Utf8 unless it is ''
XMLEncoder_encode_text(self, text) ==
    IF text # <<>> THEN write_string(write_type(self, TYPE_UTF8), text)
    ELSE write_type(self, TYPE_EMPTY)

RECURSIVE XMLEncoder_encode_node(_, _)
RECURSIVE XMLEncoder_encode_children(_, _)
\* for child in node: self.encode_node(child)
XMLEncoder_encode_children(self, children) ==
    IF Evaluated(self) /\ children # <<>>
    THEN XMLEncoder_encode_children(XMLEncoder_encode_node(self, Head(children)),
                                    Tail(children))
    ELSE self

\* the node's contents: its children, else its text, else Empty
XMLEncoder_encode_contents(self, node) ==
    IF Len(node.children) > 0 THEN
        XMLEncoder_encode_children(
            write_integer(write_type(self, TYPE_MAP), Len(node.children)), node.children)
    ELSE IF node.text # PyNone /\ node.text.v # <<>> THEN
        XMLEncoder_encode_text(self, strip(node.text.v))
    ELSE write_type(self, TYPE_EMPTY)

XMLEncoder_encode_node(self, node) ==
    IF node.tag = ET_Comment THEN
        write_string(write_type(self, TYPE_COMMENT), node.text.v)
    ELSE
        XMLEncoder_encode_contents(
            XMLEncoder_encode_attributes(
                write_string(write_type(self, TYPE_UTF8), node.tag.v), node.attrib),
            node)

\* XMLEncoder.encode after ET.parse: a Map of one entry, the root node
XMLEncoder_encode(root_node) ==
    finalize(XMLEncoder_encode_node(
                 write_integer(write_type(BinaryWriter, TYPE_MAP), 1), root_node))

-----------------------------------------------------------------------------
(* str(value), as the decoders that render text call it *)

RECURSIVE str_digits(_)
\* the decimal digits of n >= 0
str_digits(n) ==
    IF n < 10 THEN <<48 + n>> ELSE Append(str_digits(n \div 10), 48 + (n % 10))

\* a hexadecimal digit, in lower case
str_hex(d) == IF d < 10 THEN 48 + d ELSE 87 + d

\* one byte inside the quotes of repr(bytes)
str_byte(b, quote) ==
    IF b = 92 THEN <<92, 92>>
    ELSE IF b = quote THEN <<92, b>>
    ELSE IF b = 9 THEN <<92, 116>>
    ELSE IF b = 10 THEN <<92, 110>>
    ELSE IF b = 13 THEN <<92, 114>>
    ELSE IF b >= 32 /\ b < 127 THEN <<b>>
    ELSE <<92, 120, str_hex(b \div 16), str_hex(b % 16)>>

RECURSIVE str_bytes(_, _)
str_bytes(bytes, quote) ==
    IF bytes = <<>> THEN <<>>
    ELSE str_byte(Head(bytes), quote) \o str_bytes(Tail(bytes), quote)

\* the quote of repr(bytes): " when the bytes hold a ' and no ", else '
str_quote(bytes) ==
    IF (\E i \in 1..Len(bytes) : bytes[i] = 39) /\ (\A i \in 1..Len(bytes) : bytes[i] # 34)
    THEN 34 ELSE 39

\* repr(float) of the floats 0.0, 1.5 and -2.0; the digits of another float
\* are not computed: it is rendered as its 8 bytes between braces
str_float(packed) ==
    IF packed = <<0, 0, 0, 0, 0, 0, 0, 0>> THEN <<48, 46, 48>>
    ELSE IF packed = <<0, 0, 0, 0, 0, 0, 248, 63>> THEN <<49, 46, 53>>
    ELSE IF packed = <<0, 0, 0, 0, 0, 0, 0, 192>> THEN <<45, 50, 46, 48>>
    ELSE <<123>> \o packed \o <<125>>

\* str(value) of a value that is no container
str(value) ==
    CASE value.t = "str" -> value.v
      [] value.t = "NoneType" -> <<78, 111, 110, 101>>
      [] value.t = "bool" -> IF value.v THEN <<84, 114, 117, 101>> ELSE <<70, 97, 108, 115, 101>>
      [] value.t = "int" ->
            IF value.v < 0 THEN <<45>> \o str_digits(0 - value.v) ELSE str_digits(value.v)
      [] value.t = "float" -> str_float(value.v)
      [] value.t = "bytes" ->
            <<98, str_quote(value.v)>> \o str_bytes(value.v, str_quote(value.v))
                \o <<str_quote(value.v)>>

-----------------------------------------------------------------------------
(* class CSVDecoder *)

RECURSIVE CSVDecoder_decode_field(_, _)
RECURSIVE CSVDecoder_skip_properties(_, _)
\* key = self.decode_field(); value = self.decode_field() , the key read
CSVDecoder_skip_property(key, i) ==
    CSVDecoder_skip_properties(CSVDecoder_decode_field(key.self, NoType).self, i - 1)

\* for i in range(num_items)  of the properties loop, i items left
CSVDecoder_skip_properties(self, i) ==
    IF self.err # NoError \/ i <= 0 THEN self
    ELSE CSVDecoder_skip_property(CSVDecoder_decode_field(self, NoType), i)

RECURSIVE CSVDecoder_decode_list(_, _, _, _, _)
\* output += str(self.decode_field(field_type)); if i < num_values - 1:
\* output += separator , the call having returned item with i values left
CSVDecoder_list_append(item, field_type, i, separator, text) ==
    IF Raised(item) THEN Return(item.self, PyStr(text))
    ELSE CSVDecoder_decode_list(item.self, field_type, i - 1, separator,
             text \o str(item.value) \o (IF i > 1 THEN separator ELSE <<>>))

\* the loops of the List and UniformList branches, i values left
CSVDecoder_decode_list(self, field_type, i, separator, text) ==
    IF self.err # NoError \/ i <= 0 THEN Return(self, PyStr(text))
    ELSE CSVDecoder_list_append(CSVDecoder_decode_field(self, field_type),
                                field_type, i, separator, text)

\* the UniformList branch after  field_type = self.read_type() : rows are
\* joined by '\n'
CSVDecoder_decode_uniform_counted(field_type, num_values) ==
    CSVDecoder_decode_list(num_values.self, field_type, num_values.value, <<10>>, <<>>)

CSVDecoder_decode_uniform(field_type) ==
    CSVDecoder_decode_uniform_counted(field_type.value, read_integer(field_type.self))

\* the List branch after  num_values = self.read_integer() : values are
\* joined by ','
CSVDecoder_decode_tagged(num_values) ==
    CSVDecoder_decode_list(num_values.self, NoType, num_values.value, <<44>>, <<>>)

\* the chain  if field_type == ... elif ...  of decode_field
CSVDecoder_decode_value(self, field_type) ==
    IF self.err # NoError THEN Return(self, PyNone)
    ELSE IF field_type = TYPE_EMPTY THEN Return(self, PyStr(<<>>))
    ELSE IF field_type = TYPE_BOOL THEN ReturnBool(read_bit(self))
    ELSE IF field_type = TYPE_INTEGER THEN decode_integer(read_bit(self))
    ELSE IF field_type = TYPE_REAL THEN ReturnFloat(read_ieee754_2_64(self))
    ELSE IF field_type = TYPE_BYTES THEN decode_bytes(read_integer(self))
    ELSE IF field_type = TYPE_UTF8 THEN ReturnStr(read_string(self))
    ELSE IF field_type = TYPE_COMMENT THEN ReturnNone(read_string(self))
    ELSE IF field_type = TYPE_LIST THEN CSVDecoder_decode_tagged(read_integer(self))
    ELSE IF field_type = TYPE_UNIFORM_LIST THEN CSVDecoder_decode_uniform(read_type(self))
    ELSE Return([self EXCEPT !.err = "ValueError"], PyNone)

RECURSIVE CSVDecoder_decode_properties(_)
\* the properties loop after  num_items = self.read_integer()
CSVDecoder_properties_block(num_items) ==
    CSVDecoder_decode_properties(
        read_type(CSVDecoder_skip_properties(num_items.self, num_items.value)))

\* while field_type == TYPE_PROPERTIES , then the value of the last type read
CSVDecoder_decode_properties(field_type) ==
    IF Raised(field_type) THEN Return(field_type.self, PyNone)
    ELSE IF field_type.value = TYPE_PROPERTIES
         THEN CSVDecoder_properties_block(read_integer(field_type.self))
    ELSE CSVDecoder_decode_value(field_type.self, field_type.value)

\* if not field_type: field_type = self.read_type()  -- None and 0 are both false
CSVDecoder_decode_field(self, field_type) ==
    IF field_type = NoType \/ field_type = 0
    THEN CSVDecoder_decode_properties(read_type(self))
    ELSE CSVDecoder_decode_properties(Return(self, field_type))

CSVDecoder_decode(binary_data) == CSVDecoder_decode_field(BinaryReader(binary_data), NoType)

-----------------------------------------------------------------------------
(* class XMLDecoder: decode_node returns the node it was given, as its      *)
(* statements leave it.                                                     *)

\* the chain  if field_type == ... elif ...  of decode_field
XMLDecoder_decode_value(self, field_type) ==
    IF self.err # NoError THEN Return(self, PyNone)
    ELSE IF field_type = TYPE_EMPTY THEN Return(self, PyNone)
    ELSE IF field_type = TYPE_BOOL THEN ReturnBool(read_bit(self))
    ELSE IF field_type = TYPE_INTEGER THEN decode_integer(read_bit(self))
    ELSE IF field_type = TYPE_REAL THEN ReturnFloat(read_ieee754_2_64(self))
    ELSE IF field_type = TYPE_BYTES THEN decode_bytes(read_integer(self))
    ELSE IF field_type = TYPE_UTF8 THEN ReturnStr(read_string(self))
    ELSE Return([self EXCEPT !.err = "ValueError"], PyNone)

\* decode_field after  field_type = self.read_type()
XMLDecoder_decode_typed(field_type) ==
    XMLDecoder_decode_value(field_type.self, field_type.value)

\* if field_type is None: field_type = self.read_type()
XMLDecoder_decode_field(self, field_type) ==
    IF field_type = NoType THEN XMLDecoder_decode_typed(read_type(self))
    ELSE XMLDecoder_decode_value(self, field_type)

RECURSIVE XMLDecoder_decode_attributes(_, _, _)
\* node.attrib[key] = value , value the second decode_field() of the item
XMLDecoder_attribute_value(key, value, i, node) ==
    IF Raised(value) THEN Return(value.self, node)
    ELSE XMLDecoder_decode_attributes(value.self, i - 1,
             [node EXCEPT !.attrib = dict_set(@, key, value.value)])

\* key the first decode_field() of the item
XMLDecoder_attribute_key(key, i, node) ==
    IF Raised(key) THEN Return(key.self, node)
    ELSE XMLDecoder_attribute_value(key.value, XMLDecoder_decode_field(key.self, NoType),
                                    i, node)

\* for i in range(num_items)  of the properties loop, i items left
XMLDecoder_decode_attributes(self, i, node) ==
    IF self.err # NoError \/ i <= 0 THEN Return(self, node)
    ELSE XMLDecoder_attribute_key(XMLDecoder_decode_field(self, NoType), i, node)

RECURSIVE XMLDecoder_decode_node(_, _)
RECURSIVE XMLDecoder_decode_map(_, _, _)
\* node.append(child_node) in the Map loop
XMLDecoder_map_append(child, i, node) ==
    IF Raised(child) THEN Return(child.self, node)
    ELSE XMLDecoder_decode_map(child.self, i - 1,
             [node EXCEPT !.children = Append(@, child.value)])

\* child_node = ET.Element(ET.Comment); child_node.text = self.read_string()
XMLDecoder_map_comment(text, i, node) ==
    XMLDecoder_map_append(Return(text.self, [Element(ET_Comment) EXCEPT !.text = PyStr(text.value)]),
                          i, node)

\* key = self.decode_field(field_type); child_node = ET.Element(key);
\* self.decode_node(child_node)
XMLDecoder_map_child(key, i, node) ==
    IF Raised(key) THEN Return(key.self, node)
    ELSE XMLDecoder_map_append(XMLDecoder_decode_node(key.self, Element(key.value)), i, node)

\* the body of the Map loop after  field_type = self.read_type()
XMLDecoder_map_entry(field_type, i, node) ==
    IF Raised(field_type) THEN Return(field_type.self, node)
    ELSE IF field_type.value = TYPE_COMMENT
         THEN XMLDecoder_map_comment(read_string(field_type.self), i, node)
    ELSE XMLDecoder_map_child(XMLDecoder_decode_field(field_type.self, field_type.value),
                              i, node)

\* for i in range(num_items)  of the Map branch, i items left
XMLDecoder_decode_map(self, i, node) ==
    IF self.err # NoError \/ i <= 0 THEN Return(self, node)
    ELSE XMLDecoder_map_entry(read_type(self), i, node)

RECURSIVE XMLDecoder_decode_items(_, _, _)
\* node.append(child_node) in the List and UniformList loops
XMLDecoder_items_append(child, i, node) ==
    IF Raised(child) THEN Return(child.self, node)
    ELSE XMLDecoder_decode_items(child.self, i - 1,
             [node EXCEPT !.children = Append(@, child.value)])

\* for i in range(num_items): child_node = ET.Element('item');
\* self.decode_node(child_node) , i items left
XMLDecoder_decode_items(self, i, node) ==
    IF self.err # NoError \/ i <= 0 THEN Return(self, node)
    ELSE XMLDecoder_items_append(
             XMLDecoder_decode_node(self, Element(PyStr(<<105, 116, 101, 109>>))), i, node)

\* a loop after  num_items = self.read_integer()
XMLDecoder_decode_map_counted(num_items, node) ==
    XMLDecoder_decode_map(num_items.self, num_items.value, node)

XMLDecoder_decode_items_counted(num_items, node) ==
    XMLDecoder_decode_items(num_items.self, num_items.value, node)

\* the UniformList branch after  item_type = self.read_type() : item_type is
\* not used
XMLDecoder_decode_uniform(item_type, node) ==
    XMLDecoder_decode_items_counted(read_integer(item_type.self), node)

\* value = self.decode_field(field_type); if value is not None:
\* node.text = str(value)
XMLDecoder_set_text(value, node) ==
    IF Raised(value) \/ value.value = PyNone THEN Return(value.self, node)
    ELSE Return(value.self, [node EXCEPT !.text = PyStr(str(value.value))])

\* the chain  if field_type == TYPE_MAP ... else  of decode_node
XMLDecoder_decode_content(self, field_type, node) ==
    IF field_type = TYPE_MAP THEN XMLDecoder_decode_map_counted(read_integer(self), node)
    ELSE IF field_type = TYPE_LIST
         THEN XMLDecoder_decode_items_counted(read_integer(self), node)
    ELSE IF field_type = TYPE_UNIFORM_LIST
         THEN XMLDecoder_decode_uniform(read_type(self), node)
    ELSE XMLDecoder_set_text(XMLDecoder_decode_field(self, field_type), node)

RECURSIVE XMLDecoder_decode_properties(_, _)
\* the properties loop done, field_type = self.read_type()
XMLDecoder_properties_done(got) ==
    XMLDecoder_decode_properties(read_type(got.self), got.value)

\* the properties loop after  num_items = self.read_integer()
XMLDecoder_properties_block(num_items, node) ==
    XMLDecoder_properties_done(
        XMLDecoder_decode_attributes(num_items.self, num_items.value, node))

\* while field_type == TYPE_PROPERTIES , then the content of the last type read
XMLDecoder_decode_properties(field_type, node) ==
    IF Raised(field_type) THEN Return(field_type.self, node)
    ELSE IF field_type.value = TYPE_PROPERTIES
         THEN XMLDecoder_properties_block(read_integer(field_type.self), node)
    ELSE XMLDecoder_decode_content(field_type.self, field_type.value, node)

XMLDecoder_decode_node(self, node) == XMLDecoder_decode_properties(read_type(self), node)

\* return root_node[0] : IndexError when the root node got no child
XMLDecoder_root(got) ==
    IF Raised(got) THEN got
    ELSE IF got.value.children = <<>> THEN Return([got.self EXCEPT !.err = "IndexError"], got.value)
    ELSE Return(got.self, got.value.children[1])

\* XMLDecoder.decode: root_node = ET.Element('root'); self.decode_node(root_node)
XMLDecoder_decode(binary_data) ==
    XMLDecoder_root(XMLDecoder_decode_node(BinaryReader(binary_data),
                                           Element(PyStr(<<114, 111, 111, 116>>))))

-----------------------------------------------------------------------------
(* Spec: a sequence of write_bits / write_byte calls on one writer,         *)
(* finalize(), then the same sequence replayed on a reader over the buffer. *)

\* widths requested of write_bits: sub-byte, whole bytes, and bytes plus bits
BitWidths == {1, 3, 4, 7, 8, 9, 12, 16}

\* values within a width: all zeros, all ones, the top bit, alternating bits
BitValues(num_bits) == {0, 2^num_bits - 1, 2^(num_bits - 1), (2^num_bits - 1) \div 3}

ByteValues == {0, 165, 255}

Init ==
    /\ writer = BinaryWriter
    /\ reader = BinaryReader(<<>>)
    /\ input = <<>>
    /\ output = <<>>
    /\ pc = "write"

\* one entry of the log of calls made on the writer
Op(op, arg, step, value) == [op |-> op, arg |-> arg, step |-> step, value |-> value]

\* the harness calls writer.write_bits(num_bits, value)
WriteBits(num_bits, value) ==
    /\ pc = "write"
    /\ writer' = write_bits(writer, num_bits, value)
    /\ input' = Append(input, Op("bits", num_bits, 0, value))
    /\ UNCHANGED <<reader, output, pc>>

\* the harness calls writer.write_byte(value)
WriteByte(value) ==
    /\ pc = "write"
    /\ writer' = write_byte(writer, value)
    /\ input' = Append(input, Op("byte", 8, 0, value))
    /\ UNCHANGED <<reader, output, pc>>

\* the harness calls writer.write_integer(value)
WriteInteger(value) ==
    /\ pc = "write"
    /\ writer' = write_integer(writer, value)
    /\ input' = Append(input, Op("integer", 0, 0, value))
    /\ UNCHANGED <<reader, output, pc>>

\* the harness calls writer.write_type(value)
WriteType(value) ==
    /\ pc = "write"
    /\ writer' = write_type(writer, value)
    /\ input' = Append(input, Op("type", TYPE_BIT_LENGTH, TYPE_BIT_STEP, value))
    /\ UNCHANGED <<reader, output, pc>>

\* the harness calls writer.write_variable_bits(bit_length, bit_step, value)
WriteVariableBits(bit_length, bit_step, value) ==
    /\ pc = "write"
    /\ writer' = write_variable_bits(writer, bit_length, bit_step, value)
    /\ input' = Append(input, Op("variable_bits", bit_length, bit_step, value))
    /\ UNCHANGED <<reader, output, pc>>

\* the harness calls writer.write_string(string)
WriteString(string) ==
    /\ pc = "write"
    /\ writer' = write_string(writer, string)
    /\ input' = Append(input, Op("string", 0, 0, string))
    /\ UNCHANGED <<reader, output, pc>>

\* the harness calls writer.finalize() and hands writer.data to a new reader
Finalize ==
    /\ pc = "write"
    /\ writer' = finalize(writer)
    /\ reader' = BinaryReader(writer'.data)
    /\ pc' = "read"
    /\ UNCHANGED <<input, output>>

\* the operation the reader replays next
NextOp == input[Len(output) + 1]

Replaying(op) == pc = "read" /\ Len(output) < Len(input) /\ NextOp.op = op

\* the reader call made, its value appended to the values read back
Read(got) ==
    /\ reader' = got.self
    /\ output' = Append(output, got.value)
    /\ UNCHANGED <<writer, input, pc>>

\* the harness calls reader.read_bits(num_bits) for the next write_bits
ReadBits == Replaying("bits") /\ Read(read_bits(reader, NextOp.arg))

\* the harness calls reader.read_byte() for the next write_byte
ReadByte == Replaying("byte") /\ Read(read_byte(reader))

\* the harness calls reader.read_integer() for the next write_integer
ReadInteger == Replaying("integer") /\ Read(read_integer(reader))

\* the harness calls reader.read_type() for the next write_type
ReadType == Replaying("type") /\ Read(read_type(reader))

\* the harness calls reader.read_variable_bits for the next write_variable_bits
ReadVariableBits ==
    Replaying("variable_bits") /\ Read(read_variable_bits(reader, NextOp.arg, NextOp.step))

\* the harness calls reader.read_string() for the next write_string
ReadString == Replaying("string") /\ Read(read_string(reader))

Next ==
    \/ /\ Len(input) < MaxOps
       /\ \E num_bits \in BitWidths : \E value \in BitValues(num_bits) :
             WriteBits(num_bits, value)
    \/ /\ Len(input) < MaxOps
       /\ \E value \in ByteValues : WriteByte(value)
    \/ Finalize
    \/ ReadBits
    \/ ReadByte

Spec == Init /\ [][Next]_vars

\* every value read back so far is the value written at that place
Mirrored == \A i \in 1..Len(output) : output[i] = input[i].value

\* C10: after any sequence of write_bits(w, v) (w >= 1, 0 <= v < 2^w) and
\* write_byte(b) calls and finalize(), the same sequence of read_bits /
\* read_byte calls on the produced buffer raises nothing, returns the written
\* values in order, and ends with the whole buffer consumed.
BitCursorMirror ==
    pc = "read" =>
        /\ reader.err = NoError
        /\ Mirrored
        /\ Len(output) = Len(input) => reader.position = Len(reader.data)

\* C10 witness: a write of 8 or more bits made while sub-byte bits were
\* pending, after a sub-byte write that carried over into the next byte, all
\* read back
BitCursorMirrorWitness ==
    /\ pc = "read"
    /\ Len(input) = 3
    /\ Len(output) = 3
    /\ input[1].op = "bits" /\ input[1].arg = 7
    /\ input[2].op = "bits" /\ input[2].arg = 3
    /\ input[3].op = "bits" /\ input[3].arg = 12
    /\ output[3] = 4095

-----------------------------------------------------------------------------
(* SpecInt: write_integer calls, between write_bits calls that leave 0 to 7 *)
(* bits pending, then finalize() and the replay.                            *)

\* the magnitudes at every chunk-selector boundary, and the largest one below 2^31
IntegerValues ==
    {0, 5, 255, 256, 65535, 65536, 1000000, 16777215, 16777216, 16777217, 2147483647}

\* sub-byte writes that move the pending bit count
PendingWidths == {1, 3}

NextInt ==
    \/ /\ Len(input) < MaxOps
       /\ \E num_bits \in PendingWidths : WriteBits(num_bits, 2^num_bits - 1)
    \/ /\ Len(input) < MaxOps
       /\ \E value \in IntegerValues : WriteInteger(value)
    \/ Finalize
    \/ ReadBits
    \/ ReadInteger

SpecInt == Init /\ [][NextInt]_vars

\* the replay has read every operation back
ReplayDone == pc = "read" /\ Len(output) = Len(input)

\* the bytes of write_integer(n) on a new writer, finalized, for n < 2^31: the
\* selector chunk(s) in the low bits of the first byte, then the payload bytes
IntegerLayout(n) ==
    IF n < 2^8 THEN <<0, n>>
    ELSE IF n < 2^16 THEN <<1, n % 2^8, n \div 2^8>>
    ELSE IF n < 2^24 THEN <<2, n % 2^8, (n \div 2^8) % 2^8, n \div 2^16>>
    ELSE <<3, n % 2^8, (n \div 2^8) % 2^8, (n \div 2^16) % 2^8, n \div 2^24>>

\* C2: read_integer() after write_integer(n) returns exactly n and consumes
\* exactly the bytes written, whatever bits are pending around it; on a new
\* writer n < 2^8 is one selector-0 chunk, n < 2^16 one selector-1 chunk,
\* n < 2^24 one selector-2 chunk, and n >= 2^24 a selector-3 chunk with the
\* low 24 bits followed by the encoding of n >> 24.
IntegerRoundTrip ==
    pc = "read" =>
        /\ reader.err = NoError
        /\ Mirrored
        /\ ReplayDone => reader.position = Len(reader.data)
        /\ (Len(input) = 1 /\ input[1].op = "integer") =>
               reader.data = IntegerLayout(input[1].value)

\* C2 witness: 16777217, written with bits pending before it, is read back
\* from a two-chunk encoding and an integer after it as well
IntegerRoundTripWitness ==
    /\ ReplayDone
    /\ Len(input) = 3
    /\ input[1].op = "bits"
    /\ input[2].op = "integer" /\ input[2].value = 16777217
    /\ input[3].op = "integer" /\ input[3].value = 65536
    /\ output[2] = 16777217
    /\ output[3] = 65536

-----------------------------------------------------------------------------
(* SpecVar: write_type and write_variable_bits calls, then the replay.      *)

\* longest sequence of variable-width fields replayed in SpecVar
MaxVarOps == 2

TypeCodes == TYPE_EMPTY..TYPE_COMMENT

\* nominal widths: sub-byte, one whole byte, a byte and a bit
VariableWidths == {1, 3, 8, 9}

\* growth steps: none, by one bit, past a byte
VariableSteps == {0, 1, 5}

\* values around the sentinel 2^w - 1 of the nominal width w: zero, just
\* below it, the sentinel itself, just above it, two and three sentinels
VariableValues(bit_length) ==
    LET max_value == 2^bit_length - 1
    IN {0, max_value - 1, max_value, max_value + 1, 2 * max_value, 3 * max_value + 1}

NextVar ==
    \/ /\ Len(input) < MaxVarOps
       /\ \E num_bits \in PendingWidths : WriteBits(num_bits, 2^num_bits - 1)
    \/ /\ Len(input) < MaxVarOps
       /\ \E value \in TypeCodes : WriteType(value)
    \/ /\ Len(input) < MaxVarOps
       /\ \E bit_length \in VariableWidths : \E bit_step \in VariableSteps :
             \E value \in VariableValues(bit_length) : WriteVariableBits(bit_length, bit_step, value)
    \/ Finalize
    \/ ReadBits
    \/ ReadType
    \/ ReadVariableBits

SpecVar == Init /\ [][NextVar]_vars

\* the byte of write_type(c) on a new writer, finalized: one 3-bit chunk c for
\* c < 7, else the sentinel 7 in bits 0..2 and the chunk c - 7 in bits 3..5
TypeLayout(c) == IF c < 7 THEN <<c>> ELSE <<7 + 8 * (c - 7)>>

\* C3: read_type() after write_type(c) returns c for every code 0..10, codes
\* 0..6 being one 3-bit chunk and 7..10 the sentinel 7 then the chunk c - 7;
\* read_variable_bits(w, s) after write_variable_bits(w, s, v) returns v.
TypeTagRoundTrip ==
    pc = "read" =>
        /\ reader.err = NoError
        /\ Mirrored
        /\ ReplayDone => reader.position = Len(reader.data)
        /\ (Len(input) = 1 /\ input[1].op = "type") =>
               reader.data = TypeLayout(input[1].value)

\* C3 witness: the tag 10 written as two chunks, then the value 22 in a field
\* of width 3 growing by 5 (the sentinel 7, then 15 in 8 bits), both read back
TypeTagRoundTripWitness ==
    /\ ReplayDone
    /\ Len(input) = 2
    /\ input[1].op = "type" /\ input[1].value = TYPE_COMMENT
    /\ input[2].op = "variable_bits" /\ input[2].arg = 3 /\ input[2].step = 5
    /\ output = <<TYPE_COMMENT, 22>>

-----------------------------------------------------------------------------
(* SpecStr: write_string calls on one writer, then read_string calls.       *)

\* longest sequence of strings written in SpecStr
MaxStrings == 4

\* "x", "y", "", "xy", and "e-acute" whose UTF-8 encoding has two bytes
StringValues == {<<120>>, <<121>>, <<>>, <<120, 121>>, <<233>>}

NextStr ==
    \/ /\ Len(input) < MaxStrings
       /\ \E string \in StringValues : WriteString(string)
    \/ Finalize
    \/ ReadString

SpecStr == Init /\ [][NextStr]_vars

\* whether the i-th string written was written before
SeenBefore(i) == \E j \in 1..(i - 1) : input[j].value = input[i].value

\* the number of distinct strings among the first i written
DistinctUpTo(i) == Cardinality({input[j].value : j \in 1..i})

\* the index the i-th string written has in first-seen order
FirstSeenIndex(i) ==
    LET first == CHOOSE j \in 1..i : input[j].value = input[i].value
                                     /\ \A k \in 1..(j - 1) : input[k].value # input[i].value
    IN DistinctUpTo(first) - 1

RECURSIVE StringLayout(_)
\* the writer the claim describes after the first i strings: a literal (flag
\* bit 0, byte length, bytes) for a first occurrence, flag bit 1 and the
\* first-seen index for a later one
StringLayout(i) ==
    IF i = 0 THEN BinaryWriter
    ELSE IF SeenBefore(i)
         THEN write_integer(write_bits(StringLayout(i - 1), 1, 1), FirstSeenIndex(i))
         ELSE write_bytes(write_integer(write_bits(StringLayout(i - 1), 1, 0),
                                        Len(utf8_encode(input[i].value))),
                          utf8_encode(input[i].value))

RECURSIVE FirstSeenOrder(_)
\* the distinct strings among the first i written, in first-seen order
FirstSeenOrder(i) ==
    IF i = 0 THEN <<>>
    ELSE IF SeenBefore(i) THEN FirstSeenOrder(i - 1)
         ELSE Append(FirstSeenOrder(i - 1), input[i].value)

\* C4: over a sequence of write_string calls each distinct string's literal is
\* emitted once, at its first occurrence, and every later occurrence as flag
\* bit 1 and its first-seen index; the read_string calls return the strings
\* written, each back-reference naming a literal already read.
StringDedup ==
    /\ pc = "write" => writer.data = StringLayout(Len(input)).data
    /\ pc = "read" =>
        /\ reader.err = NoError
        /\ Mirrored
        /\ reader.string_list = FirstSeenOrder(Len(output))
        /\ ReplayDone => reader.position = Len(reader.data)

\* C4 witness: ["x", "x", "y", "x"] read back, "x" and "y" stored once each
StringDedupWitness ==
    /\ ReplayDone
    /\ output = <<<<120>>, <<120>>, <<121>>, <<120>>>>
    /\ reader.string_list = <<<<120>>, <<121>>>>
    /\ reader.data = <<8, 1, 120, 0, 2, 1, 121, 0>>

-----------------------------------------------------------------------------
(* SpecJson: a value is built from atoms by wrapping it in lists and dicts, *)
(* encoded by JSONEncoder and decoded by JSONDecoder.                       *)

\* deepest nesting of lists and dicts around an atom
MaxDepth == 2

\* null, booleans, integers of both signs, strings
JsonAtoms ==
    {PyNone, PyBool(TRUE), PyBool(FALSE), PyInt(0), PyInt(-5), PyInt(1000000),
     PyStr(<<>>), PyStr(<<120>>)}

\* the keys "", "x" and "y"
JsonKeys == {<<>>, <<120>>, <<121>>}

RECURSIVE PyDepth(_)
\* how deep lists and dicts nest in value, following the first item
PyDepth(value) ==
    IF value.t = "list" THEN 1 + PyDepth(value.v[1])
    ELSE IF value.t = "dict" THEN 1 + PyDepth(value.v[1][2])
    ELSE 0

InitJson ==
    /\ writer = BinaryWriter
    /\ reader = BinaryReader(<<>>)
    /\ input \in JsonAtoms
    /\ output = PyNone
    /\ pc = "build"

Building == pc = "build" /\ PyDepth(input) < MaxDepth

\* the value becomes the first item of a list
BuildList(items) ==
    /\ Building
    /\ input' = PyList(<<input>> \o items)
    /\ UNCHANGED <<writer, reader, output, pc>>

\* the value becomes the first value of a dict
BuildDict(key, pairs) ==
    /\ Building
    /\ input' = PyDict(<<<<PyStr(key), input>>>> \o pairs)
    /\ UNCHANGED <<writer, reader, output, pc>>

\* JSONEncoder().encode, after json.load
Encode ==
    /\ pc = "build"
    /\ writer' = JSONEncoder_encode(input)
    /\ reader' = BinaryReader(writer'.data)
    /\ pc' = "encoded"
    /\ UNCHANGED <<input, output>>

\* the decode call made, its value kept
Decoded(got) ==
    /\ reader' = got.self
    /\ output' = got.value
    /\ pc' = "decoded"
    /\ UNCHANGED <<writer, input>>

\* JSONDecoder().decode(binary_data)
Decode == pc = "encoded" /\ Decoded(JSONDecoder_decode_field(reader, NoType))

NextJson ==
    \/ BuildList(<<>>)
    \/ \E item \in JsonAtoms : BuildList(<<item>>)
    \/ \E key \in JsonKeys : BuildDict(key, <<>>)
    \/ \E key \in JsonKeys : \E other \in JsonKeys \ {key} :
          \E item \in {PyInt(1), PyStr(<<120>>)} :
             BuildDict(key, <<<<PyStr(other), item>>>>)
    \/ Encode
    \/ Decode

SpecJson == InitJson /\ [][NextJson]_vars

\* C1: JSONDecoder.decode on the bytes JSONEncoder made of a value v built
\* from null, booleans, integers, strings, lists and maps with string keys
\* (the empty string too) raises nothing and returns a value equal to v.
JsonRoundTrip == pc = "decoded" => (reader.err = NoError /\ output = input)

-----------------------------------------------------------------------------
(* SpecMap: a Map whose entries may repeat a key, as XMLEncoder writes for  *)
(* sibling nodes of one tag, decoded by JSONDecoder.                        *)

\* most entries of the Map in SpecMap
MaxEntries == 3

\* the keys "a", "b" and ""
MapKeys == {<<97>>, <<98>>, <<>>}

\* values of the entries: integers, a string, null, a list
MapValues == {PyInt(1), PyInt(2), PyStr(<<115>>), PyNone, PyList(<<PyInt(1), PyInt(2)>>)}

InitMap ==
    /\ writer = BinaryWriter
    /\ reader = BinaryReader(<<>>)
    /\ input = <<>>
    /\ output = PyNone
    /\ pc = "build"

\* one more entry of the Map
AddEntry(key, value) ==
    /\ pc = "build"
    /\ Len(input) < MaxEntries
    /\ input' = Append(input, <<PyStr(key), value>>)
    /\ UNCHANGED <<writer, reader, output, pc>>

\* the Map tag, the count, and each entry's key and value, fully tagged
EncodeMap ==
    /\ pc = "build"
    /\ writer' = finalize(JSONEncoder_encode_items(
                     write_integer(write_type(BinaryWriter, TYPE_MAP), Len(input)), input))
    /\ reader' = BinaryReader(writer'.data)
    /\ pc' = "encoded"
    /\ UNCHANGED <<input, output>>

NextMap ==
    \/ \E key \in MapKeys : \E value \in MapValues : AddEntry(key, value)
    \/ EncodeMap
    \/ Decode

SpecMap == InitMap /\ [][NextMap]_vars

\* the values the entries of key have, in stream order
ValuesOf(key) ==
    LET entries == SelectSeq(input, LAMBDA e : e[1] = key)
    IN [i \in 1..Len(entries) |-> entries[i][2]]

\* what the decoded mapping binds key to
Binding(key) == output.v[DictIndex(output.v, key)][2]

\* C5: decoding a Map binds a key occurring n >= 2 times with values v1..vn
\* to the sequence [v1, ..., vn] and a key occurring once to its value.
DuplicateKeyFanOut ==
    pc = "decoded" =>
        /\ reader.err = NoError
        /\ output.t = "dict"
        /\ \A i \in 1..Len(input) :
              /\ InDict(output.v, input[i][1])
              /\ Binding(input[i][1]) =
                    IF Len(ValuesOf(input[i][1])) >= 2
                    THEN PyList(ValuesOf(input[i][1]))
                    ELSE input[i][2]

-----------------------------------------------------------------------------
(* SpecUniform: a UniformList of one declared Kind and up to MaxItems       *)
(* untagged elements, followed by the tagged Integer 7, is written and then *)
(* decoded by JSONDecoder, CSVDecoder or XMLDecoder.                        *)

MaxItems == 3

\* the Kinds declared
UniformKinds == {TYPE_EMPTY, TYPE_BOOL, TYPE_INTEGER, TYPE_UTF8, TYPE_LIST}

\* the elements of a Kind
UniformItems(kind) ==
    CASE kind = TYPE_EMPTY -> {PyNone}
      [] kind = TYPE_BOOL -> {PyBool(TRUE)}
      [] kind = TYPE_INTEGER -> {PyInt(5), PyInt(1000000), PyInt(0)}
      [] kind = TYPE_UTF8 -> {PyStr(<<97>>), PyStr(<<98>>)}
      [] kind = TYPE_LIST -> {PyList(<<>>), PyList(<<PyInt(1), PyInt(2)>>)}

\* the value after the list
Sentinel == PyInt(7)

InitUniform ==
    /\ writer = BinaryWriter
    /\ reader = BinaryReader(<<>>)
    /\ input \in {[kind |-> kind, items |-> <<>>] : kind \in UniformKinds}
    /\ output = PyNone
    /\ pc = "build"

\* one more element of the declared Kind
AddItem(item) ==
    /\ pc = "build"
    /\ Len(input.items) < MaxItems
    /\ item \in UniformItems(input.kind)
    /\ input' = [input EXCEPT !.items = Append(@, item)]
    /\ UNCHANGED <<writer, reader, output, pc>>

\* an element under its declared Kind, no type tag before it; a List is its
\* count and its tagged values, as CSVEncoder writes a row
write_uniform_item(self, kind, item) ==
    CASE kind = TYPE_EMPTY -> self
      [] kind = TYPE_BOOL -> write_bit(self, IF item.v THEN 1 ELSE 0)
      [] kind = TYPE_INTEGER ->
            write_integer(write_bit(self, IF item.v >= 0 THEN 0 ELSE 1), Abs(item.v))
      [] kind = TYPE_UTF8 -> write_string(self, item.v)
      [] kind = TYPE_LIST ->
            JSONEncoder_encode_children(write_integer(self, Len(item.v)), item.v)

RECURSIVE write_uniform_items(_, _, _)
write_uniform_items(self, kind, items) ==
    IF Evaluated(self) /\ items # <<>>
    THEN write_uniform_items(write_uniform_item(self, kind, Head(items)), kind, Tail(items))
    ELSE self

\* the UniformList tag, the Kind's tag, the count, the elements
write_uniform_list(self, kind, items) ==
    write_uniform_items(
        write_integer(write_type(write_type(self, TYPE_UNIFORM_LIST), kind), Len(items)),
        kind, items)

EncodeUniform ==
    /\ pc = "build"
    /\ writer' = finalize(JSONEncoder_encode_field(
                     write_uniform_list(BinaryWriter, input.kind, input.items), Sentinel))
    /\ reader' = BinaryReader(writer'.data)
    /\ pc' = "encoded"
    /\ UNCHANGED <<input, output>>

\* a decode call made, its value kept
DecodedBy(decoder, got) ==
    /\ reader' = got.self
    /\ output' = got.value
    /\ pc' = decoder
    /\ UNCHANGED <<writer, input>>

\* JSONDecoder.decode_field()
DecodeJson == pc = "encoded" /\ DecodedBy("json", JSONDecoder_decode_field(reader, NoType))

\* CSVDecoder.decode_field()
DecodeCsv == pc = "encoded" /\ DecodedBy("csv", CSVDecoder_decode_field(reader, NoType))

\* the tag 'root' of the node XMLDecoder.decode makes, and 'item'
RootTag == PyStr(<<114, 111, 111, 116>>)
ItemTag == PyStr(<<105, 116, 101, 109>>)

\* XMLDecoder.decode_node(root_node)
DecodeXml ==
    pc = "encoded" /\ DecodedBy("xml", XMLDecoder_decode_node(reader, Element(RootTag)))

NextUniform ==
    \/ \E item \in UniformItems(input.kind) : AddItem(item)
    \/ EncodeUniform
    \/ DecodeJson
    \/ DecodeCsv
    \/ DecodeXml

SpecUniform == InitUniform /\ [][NextUniform]_vars

RECURSIVE Joined(_, _)
\* the strings joined by a separator
Joined(strings, separator) ==
    IF strings = <<>> THEN <<>>
    ELSE IF Len(strings) = 1 THEN strings[1]
    ELSE strings[1] \o separator \o Joined(Tail(strings), separator)

\* the text the tabular decoder renders an element as
Cell(item) ==
    IF item = PyNone THEN <<>>
    ELSE IF item.t = "list" THEN Joined([i \in 1..Len(item.v) |-> str(item.v[i])], <<44>>)
    ELSE str(item)

\* the node the markup decoder makes of a value that is no list
Leaf(value) ==
    IF value = PyNone THEN Element(ItemTag)
    ELSE [Element(ItemTag) EXCEPT !.text = PyStr(str(value))]

\* the node the markup decoder makes of an element
ItemNode(item) ==
    IF item.t = "list"
    THEN [Element(ItemTag) EXCEPT !.children = [i \in 1..Len(item.v) |-> Leaf(item.v[i])]]
    ELSE Leaf(item)

\* the value after the list is what the next decode call returns, and the
\* buffer ends there
ReadsSentinel(got) ==
    got.self.err = NoError /\ got.value = Sentinel /\ got.self.position = Len(got.self.data)

JsonAtEnd == ReadsSentinel(JSONDecoder_decode_field(reader, NoType))
CsvAtEnd == ReadsSentinel(CSVDecoder_decode_field(reader, NoType))
XmlAtEnd == ReadsSentinel(XMLDecoder_decode_field(reader, NoType))

\* C6: in every decoder, the n elements of a UniformList are decoded under
\* the declared Kind, no type tag being read per element: the decoder returns
\* exactly the elements written and leaves the cursor at the end of the list.
UniformElementsUntagged ==
    /\ pc = "json" =>
          reader.err = NoError /\ output = PyList(input.items) /\ JsonAtEnd
    /\ pc = "csv" =>
          /\ reader.err = NoError
          /\ output = PyStr(Joined([i \in 1..Len(input.items) |-> Cell(input.items[i])], <<10>>))
          /\ CsvAtEnd
    /\ pc = "xml" =>
          /\ reader.err = NoError
          /\ output = [Element(RootTag) EXCEPT !.children =
                          [i \in 1..Len(input.items) |-> ItemNode(input.items[i])]]
          /\ XmlAtEnd

\* what holds: the object-notation and the tabular decoder read the elements
\* of every declared Kind but Empty untagged
UniformJsonNotEmpty == (pc = "json" /\ input.kind # TYPE_EMPTY) => UniformElementsUntagged
UniformCsvNotEmpty == (pc = "csv" /\ input.kind # TYPE_EMPTY) => UniformElementsUntagged

-----------------------------------------------------------------------------
(* SpecXml: a markup node with a tag, up to MaxAttrs attributes and a text  *)
(* is encoded by XMLEncoder and decoded by XMLDecoder.                      *)

MaxAttrs == 2

\* the tags "a" and "k"
XmlTags == {<<97>>, <<107>>}

\* the attribute keys "k", "a", "id" and values "v", "k", ""
AttributeKeys == {<<107>>, <<97>>, <<105, 100>>}
AttributeValues == {<<118>>, <<107>>, <<>>}

\* the texts "x", "k", "x y", " x", "x" and a newline, and two blanks
XmlTexts == {<<120>>, <<107>>, <<120, 32, 121>>, <<32, 120>>, <<120, 10>>, <<32, 32>>}

InitXml ==
    /\ writer = BinaryWriter
    /\ reader = BinaryReader(<<>>)
    /\ input \in {Element(PyStr(tag)) : tag \in XmlTags}
    /\ output = PyNone
    /\ pc = "build"

\* one more attribute of the node
SetAttribute(key, value) ==
    /\ pc = "build"
    /\ Len(input.attrib) < MaxAttrs
    /\ ~InDict(input.attrib, PyStr(key))
    /\ input' = [input EXCEPT !.attrib = dict_set(@, PyStr(key), PyStr(value))]
    /\ UNCHANGED <<writer, reader, output, pc>>

\* the text of the node
SetText(string) ==
    /\ pc = "build"
    /\ input.text = PyNone
    /\ input' = [input EXCEPT !.text = PyStr(string)]
    /\ UNCHANGED <<writer, reader, output, pc>>

\* XMLEncoder.encode, the document parsed being the node
XmlEncode ==
    /\ pc = "build"
    /\ writer' = XMLEncoder_encode(input)
    /\ reader' = BinaryReader(writer'.data)
    /\ pc' = "encoded"
    /\ UNCHANGED <<input, output>>

\* XMLDecoder.decode(binary_data)
XmlDecode == pc = "encoded" /\ Decoded(XMLDecoder_decode(reader.data))

NextXml ==
    \/ \E key \in AttributeKeys : \E value \in AttributeValues : SetAttribute(key, value)
    \/ \E string \in XmlTexts : SetText(string)
    \/ XmlEncode
    \/ XmlDecode

SpecXml == InitXml /\ [][NextXml]_vars

\* the Properties block of the attribute pairs, when there are any
PropertiesLayout(self, attrib) ==
    IF attrib = <<>> THEN self
    ELSE JSONEncoder_encode_items(
             write_integer(write_type(self, TYPE_PROPERTIES), Len(attrib)), attrib)

\* Map{Utf8(t): Properties{k: v, ...} followed by Utf8(x)}
MarkupLayout(node) ==
    finalize(JSONEncoder_encode_field(
                 PropertiesLayout(
                     JSONEncoder_encode_field(
                         write_integer(write_type(BinaryWriter, TYPE_MAP), 1), node.tag),
                     node.attrib),
                 node.text))

\* a node of the claim: no children, and a text that is not only whitespace
TextNode(node) ==
    node.children = <<>> /\ node.text # PyNone /\ strip(node.text.v) # <<>>

\* C7: a markup node with tag t, attributes {k: v, ...} and non-whitespace
\* text x is encoded as a one-entry Map keyed Utf8(t), a Properties block of
\* the attribute pairs and Utf8(x); decoding yields a node with the same tag,
\* the same attribute pairs and the same text.
MarkupAttributesRoundTrip ==
    /\ (pc = "encoded" /\ TextNode(input)) => writer.data = MarkupLayout(input).data
    /\ (pc = "decoded" /\ TextNode(input)) =>
          /\ reader.err = NoError
          /\ output.tag = input.tag
          /\ output.attrib = input.attrib
          /\ output.text = input.text

\* what holds: the text comes back without the whitespace around it
MarkupStrippedRoundTrip ==
    (pc = "decoded" /\ TextNode(input)) =>
        /\ reader.err = NoError
        /\ writer.data = MarkupLayout([input EXCEPT !.text = PyStr(strip(@.v))]).data
        /\ output = [input EXCEPT !.text = PyStr(strip(@.v))]

-----------------------------------------------------------------------------
(* SpecProps: up to MaxBlocks Properties blocks, a value and one more value *)
(* are written; JSONDecoder or CSVDecoder decodes the value.                *)

MaxBlocks == 2

\* the pairs of a block: none, ("k", "v"), ("", "k"), ("k", "v") ("a", "k"),
\* ("id", 5), ("k", ["z", null])
PropertyBlocks ==
    { <<>>,
      <<<<PyStr(<<107>>), PyStr(<<118>>)>>>>,
      <<<<PyStr(<<>>), PyStr(<<107>>)>>>>,
      <<<<PyStr(<<107>>), PyStr(<<118>>)>>, <<PyStr(<<97>>), PyStr(<<107>>)>>>>,
      <<<<PyStr(<<105, 100>>), PyInt(5)>>>>,
      <<<<PyStr(<<107>>), PyList(<<PyStr(<<122>>), PyNone>>)>>>> }

\* the value the blocks precede: "k", "z", 5, null, ["v", 1]
AnnotatedValues ==
    {PyStr(<<107>>), PyStr(<<122>>), PyInt(5), PyNone, PyList(<<PyStr(<<118>>), PyInt(1)>>)}

\* the value after it: "v", "z"
RestValues == {PyStr(<<118>>), PyStr(<<122>>)}

InitProps ==
    /\ writer = BinaryWriter
    /\ reader = BinaryReader(<<>>)
    /\ input \in {[blocks |-> <<>>, value |-> value, rest |-> rest] :
                     value \in AnnotatedValues, rest \in RestValues}
    /\ output = PyNone
    /\ pc = "build"

\* one more Properties block before the value
AddBlock(pairs) ==
    /\ pc = "build"
    /\ Len(input.blocks) < MaxBlocks
    /\ input' = [input EXCEPT !.blocks = Append(@, pairs)]
    /\ UNCHANGED <<writer, reader, output, pc>>

\* a Properties block: the tag, the count, each pair's tagged key and value
write_properties(self, pairs) ==
    JSONEncoder_encode_items(
        write_integer(write_type(self, TYPE_PROPERTIES), Len(pairs)), pairs)

RECURSIVE write_blocks(_, _)
write_blocks(self, blocks) ==
    IF Evaluated(self) /\ blocks # <<>>
    THEN write_blocks(write_properties(self, Head(blocks)), Tail(blocks))
    ELSE self

\* the writer after the blocks and the value they precede
AnnotatedValue == JSONEncoder_encode_field(write_blocks(BinaryWriter, input.blocks), input.value)

EncodeProps ==
    /\ pc = "build"
    /\ writer' = finalize(JSONEncoder_encode_field(AnnotatedValue, input.rest))
    /\ reader' = BinaryReader(writer'.data)
    /\ pc' = "encoded"
    /\ UNCHANGED <<input, output>>

NextProps ==
    \/ \E pairs \in PropertyBlocks : AddBlock(pairs)
    \/ EncodeProps
    \/ DecodeJson
    \/ DecodeCsv

SpecProps == InitProps /\ [][NextProps]_vars

\* the strings a writer wrote as literals, in the order of their indices
StringTable(self) ==
    [i \in 1..Cardinality(DOMAIN self.string_map) |->
        CHOOSE string \in DOMAIN self.string_map : self.string_map[string] = i - 1]

\* what the tabular decoder returns for a value
Tabular(value) == IF value = PyNone \/ value.t = "list" THEN PyStr(Cell(value)) ELSE value

\* the next decode call returns the value written after the annotated one,
\* at the end of the buffer, with every literal of the stream in the table
ReadsRest(got) ==
    /\ got.self.err = NoError
    /\ got.value = input.rest
    /\ got.self.position = Len(got.self.data)
    /\ got.self.string_list = StringTable(writer)

\* C8: JSONDecoder and CSVDecoder read every key and value of the Properties
\* blocks before a value, registering their literal strings, and return the
\* value that follows alone; the cursor and the string table are then as the
\* rest of the stream needs them.
PropertiesConsumed ==
    /\ pc = "json" =>
          /\ reader.err = NoError
          /\ output = input.value
          /\ reader.string_list = StringTable(AnnotatedValue)
          /\ ReadsRest(JSONDecoder_decode_field(reader, NoType))
    /\ pc = "csv" =>
          /\ reader.err = NoError
          /\ output = Tabular(input.value)
          /\ reader.string_list = StringTable(AnnotatedValue)
          /\ ReadsRest(CSVDecoder_decode_field(reader, NoType))

\* two blocks, the second of two pairs, before a string first written in the
\* first block, read by the tabular decoder
PropertiesConsumedWitness ==
    /\ pc = "csv"
    /\ Len(input.blocks) = 2
    /\ Len(input.blocks[2]) = 2
    /\ input.blocks[1] = <<<<PyStr(<<>>), PyStr(<<107>>)>>>>
    /\ output = PyStr(<<107>>)
    /\ reader.string_list = <<<<>>, <<107>>, <<118>>, <<97>>>>

-----------------------------------------------------------------------------
(* SpecTrunc: a value is encoded, the buffer cut to a proper prefix, and    *)
(* the prefix decoded by JSONDecoder or CSVDecoder.                         *)

\* 5, 300, 70000, 16777217, b"abc", "hi", 1.5, null, ["hi", 5]
TruncatedValues ==
    {PyInt(5), PyInt(300), PyInt(70000), PyInt(16777217), PyBytes(<<97, 98, 99>>),
     PyStr(<<104, 105>>), PyFloat(<<0, 0, 0, 0, 0, 0, 248, 63>>), PyNone,
     PyList(<<PyStr(<<104, 105>>), PyInt(5)>>)}

InitTrunc ==
    /\ writer = BinaryWriter
    /\ reader = BinaryReader(<<>>)
    /\ input \in TruncatedValues
    /\ output = PyNone
    /\ pc = "build"

\* whether the decoder's buffer ends before the encoded value does
Truncated == Len(reader.data) < Len(writer.data)

\* the decoder is given the first length bytes only
Truncate(length) ==
    /\ pc = "encoded"
    /\ ~Truncated
    /\ length < Len(writer.data)
    /\ reader' = BinaryReader(SubSeq(writer.data, 1, length))
    /\ UNCHANGED <<writer, input, output, pc>>

NextTrunc ==
    \/ Encode
    \/ \E length \in 0..(Len(writer.data) - 1) : Truncate(length)
    \/ DecodeJson
    \/ DecodeCsv

SpecTrunc == InitTrunc /\ [][NextTrunc]_vars

\* C9: when the buffer ends before the value being decoded is complete, the
\* decode call fails with an error; it returns no value built from fewer
\* bytes than the stream declared.
TruncatedInputIsError ==
    (pc \in {"json", "csv"} /\ Truncated) => reader.err # NoError

\* what holds: a buffer cut inside a type tag, a chunked integer or a Real
\* is an error
TruncatedNumberIsError ==
    (pc \in {"json", "csv"} /\ Truncated /\ input.t \in {"int", "float", "NoneType"})
        => reader.err # NoError

-----------------------------------------------------------------------------
(* SpecWide: write_bits calls of 1 to 7 bits whose values may be wider than *)
(* the width, then finalize, then the same read_bits calls.                 *)

NarrowWidths == {1, 3, 7}

\* values that fit in num_bits bits and values that do not
WideValues(num_bits) == {0, 2^num_bits - 1, 2^num_bits, 2^num_bits + 1, 2^(num_bits + 1) - 1}

NextWide ==
    \/ /\ Len(input) < MaxOps
       /\ \E num_bits \in NarrowWidths : \E value \in WideValues(num_bits) :
              WriteBits(num_bits, value)
    \/ Finalize
    \/ ReadBits

SpecWide == Init /\ [][NextWide]_vars

\* C11: write_bits(width, value) with width in 1..7 emits the low width bits
\* of value only: every read_bits(width) of the replay returns the value
\* written by the matching call modulo 2^width, whatever the higher bits of
\* that value or of the values written before and after it.
LowBitsOnly ==
    pc = "read" =>
        /\ reader.err = NoError
        /\ \A i \in 1..Len(output) : output[i] = input[i].value % 2^(input[i].arg)

\* what holds: a call's own bits are the low bits of its value as long as
\* every earlier value fitted its width
LowBitsAfterNarrow ==
    pc = "read" =>
        \A i \in 1..Len(output) :
            (\A j \in 1..(i - 1) : input[j].value < 2^(input[j].arg))
                => output[i] = input[i].value % 2^(input[i].arg)

-----------------------------------------------------------------------------
(* SpecPending: write_bits (values within their width), write_byte and      *)
(* write_integer calls in any order, then finalize() twice.  output keeps   *)
(* the writer as it was before each finalize().                             *)

PendingBitWidths == {1, 3, 7, 12}

\* 5, 70000 and 16777217: one, three and four-plus-one bytes after the selectors
PendingIntegers == {5, 70000, 16777217}

\* the harness calls writer.finalize(), keeping the writer it was called on
FinalizeOnce ==
    /\ pc = "write"
    /\ writer' = finalize(writer)
    /\ output' = Append(output, writer)
    /\ pc' = "finalized"
    /\ UNCHANGED <<reader, input>>

\* the harness calls writer.finalize() a second time
FinalizeAgain ==
    /\ pc = "finalized"
    /\ writer' = finalize(writer)
    /\ output' = Append(output, writer)
    /\ pc' = "done"
    /\ UNCHANGED <<reader, input>>

NextPending ==
    \/ /\ Len(input) < MaxOps
       /\ \E num_bits \in PendingBitWidths : \E value \in BitValues(num_bits) :
              WriteBits(num_bits, value)
    \/ /\ Len(input) < MaxOps
       /\ \E value \in ByteValues : WriteByte(value)
    \/ /\ Len(input) < MaxOps
       /\ \E value \in PendingIntegers : WriteInteger(value)
    \/ FinalizeOnce
    \/ FinalizeAgain

SpecPending == Init /\ [][NextPending]_vars

\* the pending bits of a writer: fewer than 8, their value below 2^bit_shift,
\* and a zero placeholder byte reserved for them inside the buffer
PendingWellFormed(self) ==
    /\ self.bit_shift \in 0..7
    /\ self.bits >= 0
    /\ self.bits < 2^(self.bit_shift)
    /\ self.bit_shift > 0 =>
          /\ self.bit_write_position \in 0..(Len(self.data) - 1)
          /\ self.data[self.bit_write_position + 1] = 0

\* after is before with its pending bits stored in the placeholder byte, the
\* rest of the buffer as it was, and nothing pending
Flushed(before, after) ==
    /\ after.bit_shift = 0
    /\ after.bits = 0
    /\ Len(after.data) = Len(before.data)
    /\ after.data = IF before.bit_shift > 0
                    THEN [before.data EXCEPT ![before.bit_write_position + 1] = before.bits]
                    ELSE before.data
    /\ before.bit_shift > 0 => after.data[before.bit_write_position + 1] < 2^(before.bit_shift)

\* C12: after any sequence of write_bits (values within their width),
\* write_byte and write_integer calls, bit_shift is in 0..7, bits is below
\* 2^bit_shift, and while bit_shift > 0 the byte at bit_write_position is a
\* zero placeholder inside the buffer; finalize() stores the pending bits in
\* that byte with the unused high bits zero, resets bit_shift and bits, keeps
\* the buffer length, and a second finalize() changes nothing.
PendingBitsInvariant ==
    /\ PendingWellFormed(writer)
    /\ pc = "finalized" => Flushed(output[1], writer)
    /\ pc = "done" => Flushed(output[1], output[2]) /\ writer = output[2]

\* finalize() called twice with three bits pending, of value 5, whose
\* placeholder is followed by a byte written after it
PendingBitsWitness ==
    /\ pc = "done"
    /\ output[1].bit_shift = 3
    /\ output[1].bits = 5
    /\ output[1].bit_write_position < Len(output[1].data) - 1
    /\ writer.data[output[1].bit_write_position + 1] = 5
    /\ \E i \in 1..Len(input) : input[i].op = "integer"

-----------------------------------------------------------------------------
(* SpecComment: a root node is given up to MaxChildren children, comments   *)
(* and elements in any order, encoded by XMLEncoder and decoded by          *)
(* JSONDecoder.                                                             *)

MaxChildren == 3

\* the node XMLCustomTreeBuilder.comment(data) builds
Comment(data) == [tag |-> ET_Comment, attrib |-> <<>>, text |-> PyStr(data), children |-> <<>>]

\* <a>x</a>, <b k="v"/>, <a><!--c--></a>, <b><!--a--><a> y </a><!----></b>
ElementChildren ==
    { [Element(PyStr(<<97>>)) EXCEPT !.text = PyStr(<<120>>)],
      [Element(PyStr(<<98>>)) EXCEPT !.attrib = <<<<PyStr(<<107>>), PyStr(<<118>>)>>>>],
      [Element(PyStr(<<97>>)) EXCEPT !.children = <<Comment(<<99>>)>>],
      [Element(PyStr(<<98>>)) EXCEPT !.children =
          <<Comment(<<97>>),
            [Element(PyStr(<<97>>)) EXCEPT !.text = PyStr(<<32, 121, 32>>)],
            Comment(<<>>)>>] }

\* <!---->, <!--c-->, <!--a--> (the text of the last is also a tag)
CommentChildren == {Comment(<<>>), Comment(<<99>>), Comment(<<97>>)}

InitComment ==
    /\ writer = BinaryWriter
    /\ reader = BinaryReader(<<>>)
    /\ input = Element(PyStr(<<114>>))
    /\ output = PyNone
    /\ pc = "build"

\* one more child of the root node
AddChild(child) ==
    /\ pc = "build"
    /\ Len(input.children) < MaxChildren
    /\ input' = [input EXCEPT !.children = Append(@, child)]
    /\ UNCHANGED <<writer, reader, output, pc>>

NextComment ==
    \/ \E child \in ElementChildren \cup CommentChildren : AddChild(child)
    \/ XmlEncode
    \/ Decode

SpecComment == InitComment /\ [][NextComment]_vars

RECURSIVE MappingOf(_, _)
\* the value a node stands for once its comments are dropped: the mapping of
\* its element children by tag when it has children, else its stripped text,
\* else None
ValueOf(node, item_map) ==
    IF node.children # <<>> THEN PyDict(item_map)
    ELSE IF node.text # PyNone /\ strip(node.text.v) # <<>> THEN PyStr(strip(node.text.v))
    ELSE PyNone

\* the element children entered in order under their tags, the comments skipped
MappingOf(children, item_map) ==
    IF children = <<>> THEN item_map
    ELSE IF Head(children).tag = ET_Comment THEN MappingOf(Tail(children), item_map)
    ELSE MappingOf(Tail(children),
                   item_map_put(item_map, Head(children).tag,
                                ValueOf(Head(children), MappingOf(Head(children).children, <<>>))))

\* whether a comment is among the children
HasComment(children) == \E i \in 1..Len(children) : children[i].tag = ET_Comment

\* the writer after a root node whose only child is a comment: the outer Map
\* of one entry, the root's tag, a Map of one entry, the Comment tag and the
\* comment's string, and nothing after it
CommentOnly(data) ==
    finalize(
        write_string(write_type(
            write_integer(write_type(
                write_string(write_type(
                    write_integer(write_type(BinaryWriter, TYPE_MAP), 1),
                    TYPE_UTF8), input.tag.v),
                TYPE_MAP), 1),
            TYPE_COMMENT), data))

\* C13: a comment child is written as one Map entry, the Comment tag and its
\* string; JSONDecoder consumes the string, reads no value for the entry and
\* adds nothing to the mapping for it, and every other entry of the Map, before
\* and after the comment, is decoded as the element it was written from, the
\* whole buffer being read without an error.
CommentsDropped ==
    /\ (pc # "build" /\ Len(input.children) = 1 /\ input.children[1].tag = ET_Comment) =>
          writer = CommentOnly(input.children[1].text.v)
    /\ (pc # "build" /\ input.children = <<Comment(<<99>>)>>) =>
          writer.data = <<15, 1, 197, 1, 114, 195, 1, 7, 1, 99>>
    /\ pc = "decoded" =>
        /\ reader.err = NoError
        /\ reader.position = Len(reader.data)
        /\ output = PyDict(<<<<input.tag, ValueOf(input, MappingOf(input.children, <<>>))>>>>)

\* a comment, an element, and an element with comments of its own after it
CommentsDroppedWitness ==
    /\ pc = "decoded"
    /\ Len(input.children) = 3
    /\ input.children[1] = Comment(<<97>>)
    /\ input.children[2].tag = PyStr(<<97>>)
    /\ input.children[3].tag = PyStr(<<98>>)
    /\ HasComment(input.children[3].children)
    /\ output.v[1][2].t = "dict"
    /\ Len(output.v[1][2].v) = 2

=============================================================================
